---- MODULE Spec2Model ----
(***************************************************************************)
(* A model of deadpool_dfa.Acquisition (src/deadpool_dfa.py): the range    *)
(* splitter, the fault injector and the recursive search (dig), with the   *)
(* trace recorder and the two signal handlers.                             *)
(*                                                                         *)
(* Ranges are pairs <<x, y>> standing for the half-open interval [x, y).   *)
(* Python sequences are 0-based: byte i of a table is table[i + 1] here.   *)
(***************************************************************************)
EXTENDS Integers, Sequences, FiniteSets, TLC

VARIABLES
    \* the configuration of the session, fixed by __init__
    maxleaf,                \* self.maxleaf
    minleaf,                \* self.minleaf
    minleafnail,            \* self.minleafnail
    start_from_left,        \* self.start_from_left
    depth_first_traversal,  \* self.depth_first_traversal
    faults,                 \* self.faults: a list of masks or a number of random faults
    minfaultspercol,        \* self.minfaultspercol
    savetraces_format,      \* self.savetraces_format
    blocksize,              \* self.blocksize
    goldendata,             \* self.goldendata: the golden table
    addresses,              \* the argument addresses: None, or the ranges of a log
    target,                 \* the target program and checker the session runs against
    \* the state of the session
    tabletree,              \* self.tabletree: the top-level Work Tree
    encpairs,               \* self.encpairs
    decpairs,               \* self.decpairs
    encstatus,              \* self.encstatus
    decstatus,              \* self.decstatus
    logfile,                \* the lines written to self.logfile
    targetdata,             \* the content of the file self.targetdata
    dumps,                  \* the trace files written, one entry per savetraces() that wrote
    clock,                  \* the wall clock, in seconds since the session started
    trial,                  \* the range and mask of the last trial
    \* the position of the program
    phase,                  \* "constructed", "dig", "done" or "aborted"
    exitcode,               \* the exit status of the process once it has ended
    stack,                  \* the frames of dig, the innermost last
    retval,                 \* "True" or "False" once the outermost dig has returned
    \* a pure function called on its own
    call,                   \* the pending call of a pure function (its arguments)
    ret                     \* the value that call returned

config == <<maxleaf, minleaf, minleafnail, start_from_left, depth_first_traversal,
            faults, minfaultspercol, savetraces_format, blocksize, goldendata,
            addresses, target>>

recorder == <<encpairs, decpairs, encstatus, decstatus, logfile>>

search == <<tabletree, targetdata, trial, stack, retval>>

vars == <<config, recorder, search, dumps, clock, phase, exitcode, call, ret>>

\* Python's None in a slot that otherwise holds a number; a slot that otherwise
\* holds a string holds "None", and one that holds a record or a list holds <<>>
None == -1

(***************************************************************************)
(* Bounds of the model.                                                    *)
(***************************************************************************)
MaxAddr == 8                \* ranges of the splitter lie within 0..MaxAddr
MaxCut == 2                 \* forced depths 0..MaxCut
MaxLeafArg == 8             \* maxleaf in 1..MaxLeafArg

(***************************************************************************)
(* Python integer helpers.                                                 *)
(***************************************************************************)
RECURSIVE pow2(_)
pow2(k) == IF k <= 0 THEN 1 ELSE 2 * pow2(k - 1)

abs(n) == IF n < 0 THEN -n ELSE n

\* int.bit_length(): the number of bits of |n|
RECURSIVE bit_length(_)
bit_length(n) == IF n = 0 THEN 0 ELSE 1 + bit_length(abs(n) \div 2)

\* Python's // rounds towards minus infinity
floordiv2(n) == IF n >= 0 THEN n \div 2 ELSE -((1 - n) \div 2)

size(r) == r[2] - r[1]

(***************************************************************************)
(* splitrange (lines 253-263).                                             *)
(***************************************************************************)
\* (a variant of line 258 that rounds the power of two down to half the size)
leftsize_half(r) == pow2(bit_length(floordiv2(size(r))) - 1)

\* line 258: left=1<<(((y-x-1)//2)).bit_length()
leftsize(r) == pow2(bit_length(floordiv2(size(r) - 1)))

\* (a variant of line 255 that forgets the maximum leaf size)
isleaf_nomax(r, mincut) == mincut = 0

\* line 255: the range is returned as it is
isleaf(r, mincut) == size(r) <= maxleaf /\ mincut = 0

\* lines 259-260
nextcut(mincut) == IF mincut > 0 THEN mincut - 1 ELSE mincut

RECURSIVE splitrange(_, _)
splitrange(r, mincut) ==
    IF isleaf(r, mincut)
    THEN <<r>>
    ELSE splitrange(<<r[1], r[1] + leftsize(r)>>, nextcut(mincut))
         \o splitrange(<<r[1] + leftsize(r), r[2]>>, nextcut(mincut))

(***************************************************************************)
(* inject (lines 265-266).                                                 *)
(***************************************************************************)
max(a, b) == IF a > b THEN a ELSE b
min(a, b) == IF a < b THEN a ELSE b

\* Python's s[a:b] for 0 <= a, b: the bounds are clamped, an empty slice when a >= b
slice(s, a, b) == SubSeq(s, a + 1, min(b, Len(s)))

\* Python's x ^ y on non-negative integers
RECURSIVE xor(_, _)
xor(x, y) ==
    IF x = 0 THEN y
    ELSE IF y = 0 THEN x
    ELSE 2 * xor(x \div 2, y \div 2) + ((x + y) % 2)

\* (a variant of inject that faults the table of the previous trial)
inject_previous(r, fault) ==
    slice(targetdata, 0, r[1])
    \o [i \in 1..Len(slice(targetdata, r[1], r[2])) |->
            xor(slice(targetdata, r[1], r[2])[i], fault)]
    \o slice(targetdata, r[2], Len(targetdata))

inject(r, fault) ==
    slice(goldendata, 0, r[1])
    \o [i \in 1..Len(slice(goldendata, r[1], r[2])) |->
            xor(slice(goldendata, r[1], r[2])[i], fault)]
    \o slice(goldendata, r[2], Len(goldendata))

(***************************************************************************)
(* The target, the checker and doit (lines 222-251).                       *)
(*                                                                         *)
(* The target program and dfa.check are outside the repository.  An output *)
(* block is a number; the checker is a function of the output block: the   *)
(* golden block is NoFault, and each other block of OBlocks stands for one *)
(* verdict of the checker.                                                 *)
(***************************************************************************)
FaultStatus ==
    {"NoFault", "MinorFault", "MajorFault", "GoodEncFault", "GoodDecFault", "Loop", "Crash"}

NCols == 4                  \* the columns of encstatus and decstatus
Columns == 0..(NCols - 1)

IBlock == 116               \* self.iblock, one byte of the default 0x7465...74
GoldenOBlock == 0           \* the output block of the golden run
MinorOBlock == 1
MajorOBlock == 2
EncOBlock(c) == 16 + c
DecOBlock(c) == 32 + c

OBlocks ==
    {GoldenOBlock, MinorOBlock, MajorOBlock}
    \cup {EncOBlock(c) : c \in Columns} \cup {DecOBlock(c) : c \in Columns}

\* self.check(oblock, self.verbose, self.FaultStatus) (line 250)
check(oblock) ==
    IF oblock = GoldenOBlock THEN [status |-> "NoFault", index |-> None]
    ELSE IF oblock = MinorOBlock THEN [status |-> "MinorFault", index |-> None]
    ELSE IF oblock = MajorOBlock THEN [status |-> "MajorFault", index |-> None]
    ELSE IF oblock \in {EncOBlock(c) : c \in Columns}
         THEN [status |-> "GoodEncFault", index |-> oblock - EncOBlock(0)]
    ELSE IF oblock \in {DecOBlock(c) : c \in Columns}
         THEN [status |-> "GoodDecFault", index |-> oblock - DecOBlock(0)]
    ELSE [status |-> "MajorFault", index |-> None]

Outcome(o, s, i) == [oblock |-> o, status |-> s, index |-> i]

(***************************************************************************)
(* processoutput and try_processoutput (lines 44-62).  The output of the   *)
(* target is a sequence of characters.                                     *)
(***************************************************************************)
HexDigits == <<"0", "1", "2", "3", "4", "5", "6", "7",
               "8", "9", "A", "B", "C", "D", "E", "F">>

LowerHexDigits == <<"0", "1", "2", "3", "4", "5", "6", "7",
                    "8", "9", "a", "b", "c", "d", "e", "f">>

ishexdigit(c) == \E v \in 0..15 : HexDigits[v + 1] = c \/ LowerHexDigits[v + 1] = c

hexvalue(c) == CHOOSE v \in 0..15 : HexDigits[v + 1] = c \/ LowerHexDigits[v + 1] = c

\* '%X' % n
RECURSIVE hex(_)
hex(n) == IF n < 16 THEN <<HexDigits[n + 1]>>
          ELSE hex(n \div 16) \o <<HexDigits[(n % 16) + 1]>>

\* '%0*X' % (width, n)
hexpad(width, n) ==
    [i \in 1..(width - Len(hex(n))) |-> "0"] \o hex(n)

\* the number a sequence of digits denotes in a base, most significant first
RECURSIVE numberupto(_, _, _)
numberupto(digits, k, base) ==
    IF k = 0 THEN 0 ELSE numberupto(digits, k - 1, base) * base + digits[k]

number(digits, base) == numberupto(digits, Len(digits), base)

readhex(s) == number([i \in 1..Len(s) |-> hexvalue(s[i])], 16)

Whitespace == {" ", "\n"}

\* str.strip(), which int() applies to its argument
RECURSIVE lstrip(_)
lstrip(s) == IF s # <<>> /\ Head(s) \in Whitespace THEN lstrip(Tail(s)) ELSE s

RECURSIVE rstrip(_)
rstrip(s) ==
    IF s # <<>> /\ s[Len(s)] \in Whitespace THEN rstrip(SubSeq(s, 1, Len(s) - 1)) ELSE s

strip(s) == lstrip(rstrip(s))

\* int() accepts the stripped text s (line 54): digits only, signs and prefixes
\* left out
isnumeral(s) == s # <<>> /\ \A i \in 1..Len(s) : ishexdigit(s[i])

\* int(output, 16) is defined
decodable(output) == \A s \in {strip(output)} : isnumeral(s)

\* (a variant of lines 58-61 that reads an output it cannot decode as block 0)
try_processoutput_zero(output) ==
    CHOOSE oblock \in {IF isnumeral(s) THEN readhex(s) ELSE 0 : s \in {strip(output)}} : TRUE

\* lines 56-62: the block decoded from the output, None when decoding raises
try_processoutput(output) ==
    CHOOSE oblock \in {IF isnumeral(s) THEN readhex(s) ELSE None : s \in {strip(output)}} : TRUE

\* the target cannot be started, or its output cannot be decoded (lines 237, 248)
CrashOutcome == Outcome(None, "Crash", None)
\* the target exceeds the timeout (line 240)
LoopOutcome == Outcome(None, "Loop", None)

\* The blocks the target may print for a table:
\*  "any":        the golden block, a MinorFault or MajorFault block, or one of
\*                the good blocks target.good, whatever the table;
\*  "stub_good":  a GoodEncFault block of column 0 when the byte target.byte of
\*                the table is corrupted, the golden block otherwise;
\*  "stub_cols":  a GoodEncFault block whose column is that of the first
\*                corrupted byte of the table, the golden block when no byte
\*                is corrupted;
\*  "stub_crash": the golden block when no byte of the table is corrupted;
\*                otherwise none, the target crashes.
Corrupted(table) ==
    {i \in 1..min(Len(table), Len(goldendata)) : table[i] # goldendata[i]}

First(S) == CHOOSE i \in S : \A j \in S : i <= j

TargetOutputs(table) ==
    IF target.kind = "any"
    THEN {GoldenOBlock, MinorOBlock, MajorOBlock} \cup target.good
    ELSE IF target.kind = "stub_good"
         THEN IF /\ target.byte + 1 <= Len(table)
                 /\ target.byte + 1 <= Len(goldendata)
                 /\ table[target.byte + 1] # goldendata[target.byte + 1]
              THEN {EncOBlock(0)}
              ELSE {GoldenOBlock}
    ELSE IF target.kind = "stub_cols"
         THEN IF Corrupted(table) # {}
              THEN {EncOBlock((First(Corrupted(table)) - 1) % NCols)}
              ELSE {GoldenOBlock}
    ELSE IF Corrupted(table) # {} THEN {} ELSE {GoldenOBlock}

\* what one execution of the target shows to doit (lines 228-235): Popen raises
\* OSError, communicate raises TimeoutExpired, or the target ends with an output
NotStarted == [kind |-> "OSError", output |-> <<>>]
TimedOut == [kind |-> "TimeoutExpired", output |-> <<>>]
Exited(output) == [kind |-> "exit", output |-> output]

\* the target prints its output block in hexadecimal on a line
printed(oblock) == hexpad(2 * blocksize, oblock) \o <<"\n">>

\* the failures the target may show: it cannot be started, it loops, or it ends
\* without printing a block
TargetFailures(table) ==
    IF target.kind = "any" THEN {NotStarted, TimedOut, Exited(<<>>)}
    ELSE IF target.kind = "stub_crash" /\ Corrupted(table) # {} THEN {NotStarted}
    ELSE {}

\* the executions of the target that are possible for a table
TargetRuns(table) ==
    TargetFailures(table) \cup {Exited(printed(o)) : o \in TargetOutputs(table)}

\* lines 247-251: what doit makes of the decoded block
verdict(oblock) ==
    IF oblock = None
    THEN [result |-> CrashOutcome, checked |-> <<>>, killed |-> FALSE]
    ELSE [result |-> Outcome(oblock, check(oblock).status, check(oblock).index),
          checked |-> <<oblock>>, killed |-> FALSE]

\* lines 228-251: what doit makes of one execution: the tuple it returns, the
\* blocks self.check was called with, and whether proc.kill() was called
execute(run) ==
    IF run.kind = "OSError"
    THEN [result |-> CrashOutcome, checked |-> <<>>, killed |-> FALSE]
    ELSE IF run.kind = "TimeoutExpired"
    THEN [result |-> LoopOutcome, checked |-> <<>>, killed |-> TRUE]
    ELSE CHOOSE e \in {verdict(oblock) : oblock \in {try_processoutput(run.output)}} : TRUE

\* doit(table): the possible results (oblock, status, index) of one execution
doit(table) == {execute(run).result : run \in TargetRuns(table)}

(***************************************************************************)
(* savetraces, savedefault and savetrs (lines 176-220).                    *)
(***************************************************************************)
RECURSIVE pow256(_)
pow256(k) == IF k <= 0 THEN 1 ELSE 256 * pow256(k - 1)

\* n.to_bytes(length, 'big'), for n < 256^length
RECURSIVE to_bytes_little(_, _)
to_bytes_little(n, length) ==
    IF length <= 0 THEN <<>> ELSE <<n % 256>> \o to_bytes_little(n \div 256, length - 1)

RECURSIVE to_bytes_big(_, _)
to_bytes_big(n, length) ==
    IF length <= 0 THEN <<>> ELSE to_bytes_big(n \div 256, length - 1) \o <<n % 256>>

\* struct.pack('<I', n) and struct.pack('<H', n)
pack_le(n, length) ==
    [i \in 1..length |-> (n \div pow256(i - 1)) % 256]

\* line 195: one line of a text trace file
traceline(pair) ==
    hexpad(2 * blocksize, pair[1]) \o <<" ">> \o hexpad(2 * blocksize, pair[2]) \o <<"\n">>

\* (a variant of lines 194-195 that leaves the golden pair out)
tracelines_nogolden(goodpairs) ==
    [i \in 1..(Len(goodpairs) - 1) |-> traceline(goodpairs[i + 1])]

\* lines 194-195: the lines of a text trace file
tracelines(goodpairs) ==
    [i \in 1..Len(goodpairs) |-> traceline(goodpairs[i])]

\* line 218: one record of a trs file
trsrecord(pair) ==
    to_bytes_big(pair[1], blocksize) \o to_bytes_big(pair[2], blocksize)

RECURSIVE trsrecords(_)
trsrecords(goodpairs) ==
    IF goodpairs = <<>> THEN <<>>
    ELSE trsrecord(Head(goodpairs)) \o trsrecords(Tail(goodpairs))

\* lines 207-215: the header of a trs file
trsheader(n) ==
    <<65, 4>> \o pack_le(n, 4) \o <<66, 4>> \o pack_le(0, 4)
    \o <<67, 1, 1>> \o <<68, 2>> \o pack_le(2 * blocksize, 2) \o <<95, 0>>

\* line 138: self.inittimestamp, the second the session started at
inittimestamp == 0

\* lines 191 and 203: datetime.datetime.now().strftime('%H%M%S')
flushtime == clock % 86400

\* lines 191-196 and 203-219: a file written, with the parts of its name
TraceFile(kind, mode, n, data) ==
    [kind |-> kind, mode |-> mode, init |-> inittimestamp, time |-> flushtime,
     n |-> n, data |-> data]

\* the directions and their sequences, in the order of lines 189 and 201
Directions == << <<encpairs, "enc">>, <<decpairs, "dec">> >>

\* lines 187-197
savedefault ==
    LET file(d) == TraceFile("dfa", d[2], Len(d[1]), tracelines(d[1]))
    IN  (IF Len(encpairs) > 1 THEN <<file(Directions[1])>> ELSE <<>>)
        \o (IF Len(decpairs) > 1 THEN <<file(Directions[2])>> ELSE <<>>)

\* lines 199-220
savetrs ==
    LET file(d) == TraceFile("trs", d[2], Len(d[1]),
                             trsheader(Len(d[1])) \o trsrecords(d[1]))
    IN  (IF Len(encpairs) > 1 THEN <<file(Directions[1])>> ELSE <<>>)
        \o (IF Len(decpairs) > 1 THEN <<file(Directions[2])>> ELSE <<>>)

\* lines 176-185: the trace files written, none when there is no trace to save
\* or when the format is unknown
savetraces ==
    IF Len(encpairs) <= 1 /\ Len(decpairs) <= 1 THEN <<>>
    ELSE IF savetraces_format = "default" THEN savedefault
    ELSE IF savetraces_format = "trs" THEN savetrs
    ELSE <<>>

\* the trace files on disk after a call of savetraces
written == IF savetraces = <<>> THEN dumps ELSE Append(dumps, savetraces)

(***************************************************************************)
(* dig (lines 268-359).  A frame is one activation of dig; pc is "loop"    *)
(* at the head of the while loop, "called" while a recursive dig runs, and *)
(* "flush" inside the loop of lines 326-340.  The local r of an iteration  *)
(* is kept while the iteration is under way, status and index during its   *)
(* flush.                                                                  *)
(***************************************************************************)
Frame(tree, flts, level, candidates) ==
    [tree |-> tree, faults |-> flts, level |-> level, candidates |-> candidates,
     breadth_first_level_address |-> None, pc |-> "loop",
     r |-> <<>>, status |-> "None", index |-> None, mycandidates |-> <<>>]

\* self.faults: a list of masks (type list) or a number of random faults (type int)
FaultList(masks) == [islist |-> TRUE, masks |-> masks, n |-> 0]
FaultCount(n) == [islist |-> FALSE, masks |-> <<>>, n |-> n]

\* random.randint(1,255), drawn from a few masks
RandomFaults == {1, 255}

\* lines 276-279: the mask of the next trial
nextfault(flts) == IF flts.islist THEN {flts.masks[1]} ELSE RandomFaults

\* (a variant of lines 315 and 320 that never asks for a confirmation)
budgetleft_never(flts) == flts.islist /\ Len(flts.masks) > Len(flts.masks)

\* lines 315 and 320: there is fault budget left after this trial
budgetleft(flts) == IF flts.islist THEN Len(flts.masks) > 1 ELSE flts.n > 1

\* lines 317 and 322: faults[1:] or faults-1
lessbudget(flts) ==
    IF flts.islist THEN FaultList(Tail(flts.masks)) ELSE FaultCount(flts.n - 1)

Top == stack[Len(stack)]
Front(s) == SubSeq(s, 1, Len(s) - 1)
Last(s) == s[Len(s)]
SetTop(f) == [stack EXCEPT ![Len(stack)] = f]

\* lines 280-291: the range popped
popped(tree) == IF start_from_left THEN Head(tree) ELSE Last(tree)
afterpop(tree) == IF start_from_left THEN Tail(tree) ELSE Front(tree)

\* lines 282-285 and 288-291: the diagnostic level of breadth-first traversal
levelafterpop(f, r) ==
    IF depth_first_traversal THEN f.level
    ELSE IF /\ f.breadth_first_level_address # None
            /\ IF start_from_left
               THEN r[1] < f.breadth_first_level_address
               ELSE r[2] > f.breadth_first_level_address
         THEN f.level + 1
         ELSE f.level

addressafterpop(f, r) ==
    IF depth_first_traversal THEN f.breadth_first_level_address
    ELSE IF start_from_left THEN r[1] ELSE r[2]

\* (a variant of lines 351-356 that pushes the children at the active pop end)
requeue_front(tree, r) ==
    IF start_from_left THEN splitrange(r, 1) \o tree ELSE tree \o splitrange(r, 1)

\* lines 351-356: tree.extend(...) or tree.extendleft(reversed(...))
requeue(tree, r) ==
    IF start_from_left THEN tree \o splitrange(r, 1) ELSE splitrange(r, 1) \o tree

\* lines 294-299: the log line of a trial
logline(level, r, fault, out) ==
    [level |-> level, r |-> r, fault |-> fault, iblock |-> IBlock,
     oblock |-> out.oblock, status |-> out.status,
     column |-> IF out.status \in {"GoodEncFault", "GoodDecFault"} THEN out.index ELSE None]

\* (a variant of lines 333 and 338 that asks for more than the minimum)
allreached_strict(colstatus) ==
    \A c \in 1..Len(colstatus) : ~(colstatus[c] <= minfaultspercol)

\* (a variant of lines 333 and 338 that is satisfied by one column)
allreached_any(colstatus) ==
    \E c \in 1..Len(colstatus) : ~(colstatus[c] < minfaultspercol)

\* lines 333 and 338: [x for x in status if x < self.minfaultspercol] == []
allreached(colstatus) ==
    \A c \in 1..Len(colstatus) : ~(colstatus[c] < minfaultspercol)

\* the frame f while a dig it called in the iteration on r is running
calling(f, r) == [f EXCEPT !.pc = "called", !.r = r]

\* (a variant of line 310 that nails down the range up to the end of r)
nailtree_fromstart(r) == splitrange(<<0, r[2]>>, 1)

\* line 310: the Work Tree of a nailing recursion
nailtree(r) == splitrange(r, 1)

\* the frames after the trial of range r of frame f (its tree already popped)
\* lines 302-358
dispatch(f, r, fault, out) ==
    IF out.status \in {"NoFault", "MinorFault"}
    THEN SetTop(f)
    ELSE IF out.status \in {"GoodEncFault", "GoodDecFault"}
    THEN IF r[2] > r[1] + minleafnail
         THEN \* line 310: nailing, always depth-first
              Append(SetTop(calling(f, r)),
                     Frame(nailtree(r), f.faults, f.level + 1, <<>>))
         ELSE LET mycandidates ==
                      f.candidates
                      \o << <<logline(f.level, r, fault, out), <<IBlock, out.oblock>> >> >>
              IN  IF budgetleft(f.faults)
                  THEN \* lines 317 and 322
                       Append(SetTop(calling(f, r)),
                              Frame(<<r>>, lessbudget(f.faults), f.level, mycandidates))
                  ELSE \* line 326
                       SetTop([f EXCEPT !.pc = "flush", !.r = r, !.status = out.status,
                                        !.index = out.index,
                                        !.mycandidates = mycandidates])
    ELSE \* MajorFault, Loop, Crash
         IF r[2] > r[1] + minleaf
         THEN IF depth_first_traversal
              THEN \* line 347
                   Append(SetTop(calling(f, r)),
                          Frame(splitrange(r, 1), f.faults, f.level + 1, <<>>))
              ELSE SetTop([f EXCEPT !.tree = requeue(f.tree, r)])
         ELSE SetTop(f)

\* lines 268-274: run() calls dig() on self.tabletree with self.faults
RunDig ==
    /\ phase = "constructed"
    /\ phase' = "dig"
    /\ stack' = <<Frame(tabletree, faults, 0, <<>>)>>
    /\ retval' = "None"
    /\ UNCHANGED <<config, recorder, tabletree, targetdata, trial, dumps, clock, exitcode, call, ret>>

\* lines 275-358: one iteration of the loop up to its continue, its recursive
\* call or the start of the flush, with the outcomes of doit drawn from outcomes
TrialWith(outcomes(_)) ==
    /\ phase = "dig"
    /\ stack # <<>>
    /\ Top.pc = "loop"
    /\ Top.tree # <<>>
    /\ LET r == popped(Top.tree)
           f == [Top EXCEPT !.tree = afterpop(Top.tree),
                            !.level = levelafterpop(Top, r),
                            !.breadth_first_level_address = addressafterpop(Top, r)]
       IN  \E fault \in nextfault(Top.faults) :
             \E out \in outcomes(inject(r, fault)) :
               /\ targetdata' = inject(r, fault)
               /\ trial' = [r |-> r, fault |-> fault]
               /\ stack' = dispatch(f, r, fault, out)
               /\ tabletree' = dispatch(f, r, fault, out)[1].tree
    /\ UNCHANGED <<config, recorder, retval, dumps, clock, phase, exitcode, call, ret>>

Trial == TrialWith(doit)

\* (a variant of the continue after a recursive call that gives up the frame)
resume_quit(f) ==
    [f EXCEPT !.pc = "loop", !.tree = <<>>, !.r = <<>>, !.status = "None", !.index = None,
              !.mycandidates = <<>>]

\* lines 312, 319, 324, 342 and 349: continue, the iteration is over
resume(f) ==
    [f EXCEPT !.pc = "loop", !.r = <<>>, !.status = "None", !.index = None,
              !.mycandidates = <<>>]

\* (a variant of lines 333 and 338 that counts a fault twice)
increment_twice(colstatus, index) == [colstatus EXCEPT ![index + 1] = @ + 2]

\* lines 333 and 338: self.encstatus[index]+=1, self.decstatus[index]+=1
increment(colstatus, index) == [colstatus EXCEPT ![index + 1] = @ + 1]

\* lines 326-342: one candidate of the flush
Flush ==
    /\ phase = "dig"
    /\ stack # <<>>
    /\ Top.pc = "flush"
    /\ LET txt == Head(Top.mycandidates)[1]
           pair == Head(Top.mycandidates)[2]
           left == Tail(Top.mycandidates)
           enc == Top.status = "GoodEncFault"
           counted == increment(IF enc THEN encstatus ELSE decstatus, Top.index)
       IN  /\ encpairs' = IF enc THEN Append(encpairs, pair) ELSE encpairs
           /\ decpairs' = IF enc THEN decpairs ELSE Append(decpairs, pair)
           /\ encstatus' = IF enc THEN counted ELSE encstatus
           /\ decstatus' = IF enc THEN decstatus ELSE counted
           /\ IF allreached(counted)
              THEN \* lines 334 and 339: return True
                   /\ stack' = Front(stack)
                   /\ retval' = "True"
                   /\ logfile' = logfile
              ELSE \* line 340, and lines 341-342 after the last candidate
                   /\ logfile' = Append(logfile, txt)
                   /\ stack' = SetTop(IF left = <<>> THEN resume(Top)
                                      ELSE [Top EXCEPT !.mycandidates = left])
                   /\ retval' = retval
    /\ UNCHANGED <<config, tabletree, targetdata, trial, dumps, clock, phase, exitcode, call, ret>>

\* line 359: the tree of the innermost frame is empty, dig returns False
ReturnFalse ==
    /\ phase = "dig"
    /\ stack # <<>>
    /\ Top.pc = "loop"
    /\ Top.tree = <<>>
    /\ IF Len(stack) = 1
       THEN stack' = <<>> /\ retval' = "False"
       ELSE /\ stack' = [Front(stack) EXCEPT ![Len(stack) - 1] = resume(@)]
            /\ retval' = retval
    /\ UNCHANGED <<config, recorder, tabletree, targetdata, trial, dumps, clock, phase, exitcode,
                   call, ret>>

\* lines 311, 318, 323 and 348: the recursive call returned True, return True
ReturnTrue ==
    /\ phase = "dig"
    /\ stack # <<>>
    /\ retval = "True"
    /\ Top.pc = "called"
    /\ stack' = Front(stack)
    /\ UNCHANGED <<config, recorder, tabletree, targetdata, trial, retval, dumps, clock, phase,
                   exitcode, call, ret>>

\* lines 363-366: dig has returned; run saves the traces and removes the data file
RunFinish ==
    /\ phase = "dig"
    /\ stack = <<>>
    /\ retval \in {"True", "False"}
    /\ dumps' = written
    /\ clock' = clock
    /\ targetdata' = <<>>              \* os.remove(self.targetdata)
    /\ phase' = "done"
    /\ exitcode' = 0
    /\ UNCHANGED <<config, recorder, tabletree, trial, stack, retval, call, ret>>

(***************************************************************************)
(* The signal handlers (lines 148-155).                                    *)
(***************************************************************************)
MaxDumps == 2               \* SIGUSR1 is sent at most MaxDumps times

\* lines 152-153: SIGUSR1 runs savetraces between two steps of the search
Sigusr1 ==
    /\ phase \in {"constructed", "dig"}
    /\ Len(dumps) < MaxDumps
    /\ dumps' = written
    /\ clock' = clock
    /\ UNCHANGED <<config, recorder, search, phase, exitcode, call, ret>>

\* lines 148-151: SIGINT calls self.finish(), which Acquisition does not define:
\* the handler raises AttributeError before sys.exit(0), the exception unwinds the
\* search and run(), and the process ends with an error and without saving traces
Sigint ==
    /\ phase \in {"constructed", "dig"}
    /\ phase' = "aborted"
    /\ exitcode' = 1
    /\ stack' = <<>>
    /\ UNCHANGED <<config, recorder, tabletree, targetdata, trial, retval, dumps, clock, call, ret>>

MaxClock == 1               \* the session is followed for MaxClock seconds

\* a second goes by between two steps of the search
Tick ==
    /\ phase \in {"constructed", "dig"}
    /\ clock < MaxClock
    /\ clock' = clock + 1
    /\ UNCHANGED <<config, recorder, search, dumps, phase, exitcode, call, ret>>

\* SIGINT while the output is decoded (lines 58-61): the bare except swallows the
\* AttributeError of the handler, the trial counts as a Crash and the search goes on
decodeinterrupted(table) == {CrashOutcome}

SigintInDecode == TrialWith(decodeinterrupted)

(***************************************************************************)
(* The session after construction (lines 65-175).                          *)
(***************************************************************************)
MaxTable == 2               \* golden tables of 1..MaxTable bytes for the free targets
MaxStubTable == 4           \* golden tables of 1..MaxStubTable bytes for the stubs
MaxReplay == 2              \* a replayed log names its range up to MaxReplay times
MaxFaults == 2              \* fault budgets 1..MaxFaults
MaxMinFaults == 1           \* minfaultspercol in 1..MaxMinFaults
MaxGran == 2                \* minleaf and minleafnail in 1..MaxGran

\* the golden table of n bytes
GoldenTable(n) == [i \in 1..n |-> (90 * i) % 256]

\* a list of k masks
Masks(k) == [i \in 1..k |-> IF i % 2 = 1 THEN 1 ELSE 255]

\* the argument addresses: None, or a log of a former run that names the full
\* range up to MaxReplay times
NoAddresses == [log |-> FALSE, ranges |-> <<>>]

Addresses(n) ==
    {NoAddresses}
    \cup {[log |-> TRUE, ranges |-> [i \in 1..k |-> <<0, n>>]] : k \in 1..MaxReplay}

\* (a variant of line 122 that fills the deque from its left end)
InitialTree_extendleft ==
    IF addresses.log THEN addresses.ranges
    ELSE LET t == splitrange(<<0, Len(goldendata)>>, 1)
         IN  [i \in 1..Len(t) |-> t[Len(t) + 1 - i]]

\* lines 121-129: the initial Work Tree is splitrange of the full range, or the
\* ranges read from the log
InitialTree ==
    IF addresses.log THEN addresses.ranges ELSE splitrange(<<0, Len(goldendata)>>, 1)

\* the stubs: deterministic targets
StubTargets(n) ==
    {[kind |-> "stub_crash", byte |-> 0, good |-> {}],
     [kind |-> "stub_cols", byte |-> 0, good |-> {}]}
    \cup {[kind |-> "stub_good", byte |-> b, good |-> {}] : b \in {0, n - 1}}

\* the free targets: they may answer anything, with good faults in every column
\* of one direction or in two columns of both directions
FreeTargets ==
    {[kind |-> "any", byte |-> 0, good |-> {EncOBlock(c) : c \in Columns}],
     [kind |-> "any", byte |-> 0, good |-> {EncOBlock(0), DecOBlock(1)}]}

\* no pure function is called on its own during a session
NoCall == call = <<>> /\ ret = <<>>

\* lines 159-169: the state after the golden run
Constructed ==
    /\ targetdata = goldendata
    /\ encpairs = << <<IBlock, GoldenOBlock>> >>
    /\ decpairs = << <<IBlock, GoldenOBlock>> >>
    /\ encstatus = [c \in 1..NCols |-> 0]
    /\ decstatus = [c \in 1..NCols |-> 0]
    /\ logfile = <<>>
    /\ dumps = <<>>
    /\ clock = 0
    /\ trial = <<>>
    /\ phase = "constructed"
    /\ exitcode = None
    /\ stack = <<>>
    /\ retval = "None"
    /\ NoCall

\* the granularities tried on a table of n bytes: one above the size of the
\* table acts as one equal to it
Granularities(n) == 1..min(n, MaxGran)

\* sessions against a stub
StubSession ==
    \E n \in 1..MaxStubTable :
        /\ goldendata = GoldenTable(n)
        /\ minleaf \in Granularities(n)
        /\ minleafnail \in Granularities(n)
        /\ maxleaf \in {1, n}
        /\ target \in StubTargets(n)
        /\ addresses \in Addresses(n)
        /\ faults \in {FaultList(Masks(k)) : k \in 1..MaxFaults}
                      \cup {FaultCount(k) : k \in 1..(IF n <= 2 THEN MaxFaults ELSE 0)}

\* sessions against a free target; a target with good faults in every column is
\* given a budget above one only on the smallest tables, and random faults are
\* tried on the smallest tables against the target with two good blocks
FreeSession ==
    \E n \in 1..MaxTable :
        /\ goldendata = GoldenTable(n)
        /\ minleaf \in Granularities(n)
        /\ minleafnail \in Granularities(n)
        /\ maxleaf = n
        /\ target \in FreeTargets
        /\ addresses \in Addresses(n)
        /\ faults \in {FaultList(Masks(k)) :
                          k \in 1..(IF Cardinality(target.good) <= 2 \/ n = 1
                                    THEN MaxFaults ELSE 1)}
                      \cup {FaultCount(k) :
                          k \in 1..(IF Cardinality(target.good) <= 2 /\ n = 1
                                    THEN MaxFaults ELSE 0)}

Init ==
    /\ start_from_left \in BOOLEAN
    /\ depth_first_traversal \in BOOLEAN
    /\ minfaultspercol \in 1..MaxMinFaults
    /\ savetraces_format = "default"
    /\ blocksize = 1
    /\ StubSession \/ FreeSession
    /\ tabletree = InitialTree
    /\ Constructed

Next == RunDig \/ Trial \/ Flush \/ ReturnFalse \/ ReturnTrue \/ RunFinish

Spec == Init /\ [][Next]_vars

\* the search with the two signals
NextSignals == Next \/ Sigusr1 \/ Sigint \/ SigintInDecode \/ Tick

\* the sessions in which signals are sent: short tables and one long table whose
\* bytes reach every column, one fault per range, every trace format (an unknown
\* one included) and two block sizes
InitSignals ==
    /\ start_from_left \in BOOLEAN
    /\ depth_first_traversal \in BOOLEAN
    /\ minfaultspercol = 1
    /\ savetraces_format \in {"default", "trs", "csv"}
    /\ blocksize \in {1, 2}
    /\ \E n \in (1..MaxTable) \cup {MaxStubTable} :
           /\ goldendata = GoldenTable(n)
           /\ minleaf = 1
           /\ minleafnail = 1
           /\ maxleaf = n
           /\ target \in IF n <= MaxTable THEN StubTargets(n) \cup FreeTargets
                          ELSE {t \in StubTargets(n) : t.kind = "stub_cols"}
           /\ addresses = NoAddresses
           /\ faults = FaultList(Masks(1))
    /\ tabletree = InitialTree
    /\ Constructed

SpecSignals == InitSignals /\ [][NextSignals]_vars

\* lines 65-155: the session before the golden run: the Work Tree is built, the
\* log file is open, and neither the sequences nor the counters exist
InitConstruct ==
    /\ start_from_left \in BOOLEAN
    /\ depth_first_traversal \in BOOLEAN
    /\ minfaultspercol = 1
    /\ savetraces_format = "default"
    /\ blocksize = 1
    /\ \E n \in (1..MaxTable) \cup {MaxStubTable} :
           /\ goldendata = GoldenTable(n)
           /\ minleaf = 1
           /\ minleafnail = 1
           /\ maxleaf = n
           /\ target \in IF n <= MaxTable THEN StubTargets(n) \cup FreeTargets
                          ELSE {t \in StubTargets(n) : t.kind = "stub_cols"}
           /\ addresses = NoAddresses
           /\ faults = FaultList(Masks(1))
    /\ tabletree = InitialTree
    /\ targetdata = <<>>
    /\ encpairs = <<>>
    /\ decpairs = <<>>
    /\ encstatus = <<>>
    /\ decstatus = <<>>
    /\ logfile = <<>>
    /\ dumps = <<>>
    /\ clock = 0
    /\ trial = <<>>
    /\ phase = "init"
    /\ exitcode = None
    /\ stack = <<>>
    /\ retval = "None"
    /\ NoCall

\* (a variant of line 162 that accepts any output block)
goldenok_anyblock(out) == ~(out.oblock = None)

\* line 162: the golden run is accepted
goldenok(out) == ~(out.oblock = None \/ out.status # "NoFault")

\* lines 156-169: the golden run, with the outcomes of doit drawn from outcomes:
\* doit writes the golden table to the data file and runs the target; the
\* constructor raises AssertionError, or registers the golden pair
GoldenRunWith(outcomes(_)) ==
    /\ phase = "init"
    /\ \E out \in outcomes(goldendata) :
         /\ targetdata' = goldendata
         /\ IF goldenok(out)
            THEN /\ encpairs' = << <<IBlock, out.oblock>> >>
                 /\ decpairs' = << <<IBlock, out.oblock>> >>
                 /\ encstatus' = <<0, 0, 0, 0>>
                 /\ decstatus' = <<0, 0, 0, 0>>
                 /\ phase' = "constructed"
                 /\ exitcode' = exitcode
            ELSE /\ phase' = "failed"
                 /\ exitcode' = 1
                 /\ UNCHANGED <<encpairs, decpairs, encstatus, decstatus>>
    /\ UNCHANGED <<config, logfile, tabletree, trial, stack, retval, dumps, clock, call, ret>>

GoldenRun == GoldenRunWith(doit)

NextConstruct == GoldenRun \/ Next

SpecConstruct == InitConstruct /\ [][NextConstruct]_vars

\* the search runs on: the loop of dig and run() make progress on their own
FairSpec == Init /\ [][Next]_vars /\ WF_vars(Next)

(***************************************************************************)
(* The pure functions on their own.                                        *)
(***************************************************************************)
\* a session that is not searching
NoSession ==
    /\ minleaf = 1
    /\ minleafnail = 1
    /\ start_from_left = TRUE
    /\ depth_first_traversal = FALSE
    /\ faults = FaultCount(1)
    /\ minfaultspercol = 1
    /\ savetraces_format = "default"
    /\ blocksize = 1
    /\ target = [kind |-> "stub_crash", byte |-> 0, good |-> {}]
    /\ addresses = NoAddresses
    /\ tabletree = <<>>
    /\ encpairs = << <<IBlock, GoldenOBlock>> >>
    /\ decpairs = << <<IBlock, GoldenOBlock>> >>
    /\ encstatus = [c \in 1..NCols |-> 0]
    /\ decstatus = [c \in 1..NCols |-> 0]
    /\ logfile = <<>>
    /\ dumps = <<>>
    /\ clock = 0
    /\ phase = "constructed"
    /\ exitcode = None
    /\ stack = <<>>
    /\ retval = "None"

SplitRanges == {r \in (0..MaxAddr) \X (0..MaxAddr) : r[1] < r[2]}

InitSplit ==
    /\ maxleaf \in 1..MaxLeafArg
    /\ call \in [op : {"splitrange"}, r : SplitRanges, mincut : 0..MaxCut]
    /\ ret = <<>>
    /\ goldendata = <<>>
    /\ targetdata = <<>>
    /\ trial = <<>>
    /\ NoSession

CallSplitrange ==
    /\ call.op = "splitrange"
    /\ ret = <<>>
    /\ ret' = splitrange(call.r, call.mincut)
    /\ UNCHANGED <<config, recorder, search, dumps, clock, phase, exitcode, call>>

NextSplit == CallSplitrange

SpecSplit == InitSplit /\ [][NextSplit]_vars

\* inject called trial after trial, as lines 292-293 and 223 do
InjLen == 3                 \* tables of 1..InjLen bytes
InjBytes == {0, 165}
InjMasks == {1, 2, 4, 8, 16, 32, 64, 128, 90, 255}

RECURSIVE InjTables(_)
InjTables(n) ==
    IF n = 0 THEN {<<>>}
    ELSE {Append(t, b) : t \in InjTables(n - 1), b \in InjBytes}

InjRanges(n) == {r \in (0..n) \X (0..n) : r[1] <= r[2]}

InitInject ==
    /\ maxleaf = 1
    /\ \E n \in 1..InjLen : goldendata \in InjTables(n)
    /\ targetdata = goldendata
    /\ trial = <<>>
    /\ call = <<>>
    /\ ret = <<>>
    /\ NoSession

CallInject ==
    \E r \in InjRanges(Len(goldendata)), fault \in InjMasks :
        /\ call' = [op |-> "inject", r |-> r, fault |-> fault]
        /\ ret' = inject(r, fault)
        \* line 223: doit writes the table to the data file
        /\ targetdata' = inject(r, fault)
        /\ trial' = [r |-> r, fault |-> fault]
        /\ UNCHANGED <<config, recorder, tabletree, stack, retval, dumps, clock, phase, exitcode>>

NextInject == CallInject

SpecInject == InitInject /\ [][NextInject]_vars

\* savetrs on its own, for sequences of up to MaxPairs pairs whose blocks fit in
\* the block size
MaxPairs == 5
TrsBlockSizes == {1, 2, 16}
TrsBlocks(b) == IF b = 1 THEN {1, 17, 255} ELSE {1, 258, 65535}

RECURSIVE PairSeqs(_, _)
PairSeqs(n, blocks) ==
    IF n <= 1 THEN {<< <<IBlock, GoldenOBlock>> >>}
    ELSE {Append(t, <<IBlock, o>>) : t \in PairSeqs(n - 1, blocks), o \in blocks}

InitTrs ==
    /\ minleaf = 1
    /\ minleafnail = 1
    /\ maxleaf = 1
    /\ start_from_left = TRUE
    /\ depth_first_traversal = FALSE
    /\ faults = FaultCount(1)
    /\ minfaultspercol = 1
    /\ savetraces_format = "trs"
    /\ blocksize \in TrsBlockSizes
    /\ target = [kind |-> "stub_crash", byte |-> 0, good |-> {}]
    /\ addresses = NoAddresses
    /\ goldendata = <<>>
    /\ targetdata = <<>>
    /\ tabletree = <<>>
    /\ \E n \in 1..MaxPairs : encpairs \in PairSeqs(n, TrsBlocks(blocksize))
    /\ \E n \in 1..2 : decpairs \in PairSeqs(n, TrsBlocks(blocksize))
    /\ encstatus = <<Len(encpairs) - 1, 0, 0, 0>>
    /\ decstatus = <<0, Len(decpairs) - 1, 0, 0>>
    /\ logfile = <<>>
    /\ dumps = <<>>
    /\ clock = 0
    /\ trial = <<>>
    /\ phase = "constructed"
    /\ exitcode = None
    /\ stack = <<>>
    /\ retval = "None"
    /\ call = [op |-> "savetrs"]
    /\ ret = <<>>

CallSavetrs ==
    /\ call.op = "savetrs"
    /\ ret = <<>>
    /\ Len(encpairs) > 1 \/ Len(decpairs) > 1
    /\ ret' = savetrs
    /\ UNCHANGED <<config, recorder, search, dumps, clock, phase, exitcode, call>>

NextTrs == CallSavetrs

SpecTrs == InitTrs /\ [][NextTrs]_vars

\* doit on its own, for every execution whose output has up to MaxOut characters
MaxOut == 2
OutChars == {"0", "1", "2", "3", "a", "F", "G", "x", " ", "\n"}

RECURSIVE OutStrings(_)
OutStrings(n) ==
    IF n = 0 THEN {<<>>}
    ELSE OutStrings(n - 1)
         \cup {Append(t, c) : t \in {u \in OutStrings(n - 1) : Len(u) = n - 1}, c \in OutChars}

DoitRuns == {NotStarted, TimedOut} \cup {Exited(o) : o \in OutStrings(MaxOut)}

InitDoit ==
    /\ maxleaf = 1
    /\ call \in [op : {"doit"}, run : DoitRuns]
    /\ ret = <<>>
    /\ goldendata = <<>>
    /\ targetdata = <<>>
    /\ trial = <<>>
    /\ NoSession

CallDoit ==
    /\ call.op = "doit"
    /\ ret = <<>>
    /\ ret' = execute(call.run)
    /\ UNCHANGED <<config, recorder, search, dumps, clock, phase, exitcode, call>>

NextDoit == CallDoit

SpecDoit == InitDoit /\ [][NextDoit]_vars

(***************************************************************************)
(* Properties of the splitter.                                             *)
(***************************************************************************)
\* the ranges of s are non-empty, ascending, and tile r without gap or overlap
Tiles(s, r) ==
    /\ Len(s) >= 1
    /\ \A i \in 1..Len(s) : s[i][1] < s[i][2]
    /\ s[1][1] = r[1]
    /\ s[Len(s)][2] = r[2]
    /\ \A i \in 1..(Len(s) - 1) : s[i][2] = s[i + 1][1]

\* C1: for every range x < y, forced depth >= 0 and maxleaf >= 1, the ranges
\* returned by splitrange are non-empty (start < end), ascending, and their
\* union is exactly [x, y) with no gap and no overlap.
C1_SplitTiles == ret # <<>> => Tiles(ret, call.r)

IsPow2(p) == \E k \in 0..(MaxAddr + 2) : p = pow2(k)

\* the largest power of two p with 2 * p <= n
LargestPow2UpToHalf(n) == CHOOSE p \in 1..n : IsPow2(p) /\ 2 * p <= n /\ 4 * p > n

\* the largest power of two p with p < n
LargestPow2Below(n) == CHOOSE p \in 1..n : IsPow2(p) /\ p < n /\ 2 * p >= n

\* the result is the leaves of <<x, x + L>> followed by those of <<x + L, y>>
SplitAt(L) ==
    ret = splitrange(<<call.r[1], call.r[1] + L>>, nextcut(call.mincut))
          \o splitrange(<<call.r[1] + L, call.r[2]>>, nextcut(call.mincut))

ActuallySplit == ret # <<>> /\ size(call.r) >= 2 /\ ~isleaf(call.r, call.mincut)

Example08 ==
    (ret # <<>> /\ call.r = <<0, 8>> /\ call.mincut = 1 /\ maxleaf >= 8)
        => ret = << <<0, 4>>, <<4, 8>> >>

\* C2 (as stated): when a range of size n >= 2 is split, the left child is
\* (x, x+L) with L the largest power of two not exceeding n/2, the right child
\* is the remainder, left leaves first; split((0,8), 1) = [(0,4),(4,8)].
C2_LeftIsPow2UpToHalf ==
    /\ ActuallySplit => SplitAt(LargestPow2UpToHalf(size(call.r)))
    /\ Example08

\* C2 (amended): when a range of size n >= 2 is split, the left child is
\* (x, x+L) with L the largest power of two strictly below n (so n/2 <= L < n),
\* the right child is the remainder (x+L, y), left leaves first; and
\* split((0,8), 1) with maxleaf >= 8 is exactly [(0,4),(4,8)].
C2_LeftIsPow2BelowSize ==
    /\ ActuallySplit =>
          /\ SplitAt(LargestPow2Below(size(call.r)))
          /\ 2 * LargestPow2Below(size(call.r)) >= size(call.r)
          /\ \E i \in 1..(Len(ret) - 1) :
                ret[i][2] = call.r[1] + LargestPow2Below(size(call.r))
    /\ Example08

\* a range of size 3 was split: half its size is 1.5, the left child has size 2
C2_Witness ==
    /\ ActuallySplit
    /\ call.r = <<0, 3>> /\ call.mincut = 1
    /\ ret[1] = <<0, 2>>

\* C3: splitrange(r, 0) on a range of size <= maxleaf returns exactly [r];
\* every returned range has size <= maxleaf; and once the forced depth is
\* used up no range of size <= maxleaf is subdivided: re-splitting any
\* returned leaf with forceDepth = 0 returns that leaf unchanged, and a range
\* of size <= maxleaf split with forceDepth = 1 yields exactly its two children.
C3_LeafSize ==
    ret # <<>> =>
        /\ (call.mincut = 0 /\ size(call.r) <= maxleaf) => ret = <<call.r>>
        /\ \A i \in 1..Len(ret) : size(ret[i]) <= maxleaf
        /\ \A i \in 1..Len(ret) : splitrange(ret[i], 0) = <<ret[i]>>
        /\ (size(call.r) <= maxleaf /\ call.mincut = 1) => Len(ret) = 2

\* a range above the maximum leaf size was cut down without any forced depth
C3_Witness ==
    /\ ret # <<>>
    /\ call.mincut = 0 /\ size(call.r) > maxleaf
    /\ Len(ret) >= 3
    /\ \E i \in 1..Len(ret) : size(ret[i]) = maxleaf /\ maxleaf >= 2

(***************************************************************************)
(* Properties of the fault injector.                                       *)
(***************************************************************************)
Bit(x, k) == (x \div pow2(k)) % 2

\* the byte whose bits are those of x where the mask has a 0 and the opposite
\* of those of x where the mask has a 1
Flipped(x, mask) ==
    LET b(k) == pow2(k) * ((Bit(x, k) + Bit(mask, k)) % 2)
    IN  b(0) + b(1) + b(2) + b(3) + b(4) + b(5) + b(6) + b(7)

\* table is the golden table with the bytes of r, and only these, flipped by mask
FaultedOnlyIn(table, r, mask) ==
    /\ Len(table) = Len(goldendata)
    /\ \A i \in 1..Len(goldendata) :
          table[i] = IF r[1] < i /\ i <= r[2]
                     THEN Flipped(goldendata[i], mask)
                     ELSE goldendata[i]

\* C4: for every range within the table and every mask, inject returns a table
\* of the length of the golden table, equal to it outside the range and to
\* golden[i] XOR mask inside; the golden table is never changed, so the table
\* of any trial differs from the golden table only inside the range of that
\* trial, whatever the trials before it.
C4_InjectFrame ==
    /\ [](ret # <<>> => FaultedOnlyIn(ret, call.r, call.fault))
    /\ []((trial # <<>> /\ phase # "done")
            => FaultedOnlyIn(targetdata, trial.r, trial.fault))
    /\ [][goldendata' = goldendata]_vars

\* the middle byte of a table of three bytes was flipped by the mask 255
C4_Witness ==
    /\ ret # <<>>
    /\ Len(goldendata) = 3
    /\ call.r = <<1, 2>> /\ call.fault = 255
    /\ ret[1] = goldendata[1] /\ ret[3] = goldendata[3]
    /\ ret[2] = 255 - goldendata[2]

(***************************************************************************)
(* Properties of the search.                                               *)
(***************************************************************************)
\* the outermost dig has returned
Returned == stack = <<>> /\ retval \in {"True", "False"}

\* every column counter of one direction has reached the minimum
Complete(colstatus) == \A c \in 1..NCols : colstatus[c] >= minfaultspercol

StopMet == Complete(encstatus) \/ Complete(decstatus)

GoldenPair == <<IBlock, GoldenOBlock>>

\* the stub of the spec: a good encryption fault of column 0 for every corruption
\* that covers one fixed byte, with minfaultspercol = 1 and a list of one mask,
\* searching the full range of the table
OneByteStub ==
    /\ target.kind = "stub_good"
    /\ minfaultspercol = 1
    /\ faults.islist /\ Len(faults.masks) = 1
    /\ ~addresses.log

\* C5 (as stated): with that stub dig terminates, the encryption sequence ends
\* with exactly one entry beyond the golden pair, and dig returns true.
C5_StubCompletes ==
    (OneByteStub /\ Returned) => (Len(encpairs) = 2 /\ retval = "True")

\* C5 (amended): with that stub dig terminates, the encryption sequence ends
\* with exactly one entry beyond the golden pair, counted in column 0, and dig
\* returns false: the counters of the three other columns stay below
\* minfaultspercol.
C5_StubOnePairNotComplete ==
    /\ []((OneByteStub /\ Returned) =>
            /\ Len(encpairs) = 2 /\ encpairs[1] = GoldenPair
            /\ encpairs[2] = <<IBlock, EncOBlock(0)>>
            /\ decpairs = <<GoldenPair>>
            /\ encstatus = <<1, 0, 0, 0>>
            /\ retval = "False")
    /\ (OneByteStub /\ phase = "dig") ~> Returned

\* the stub session has ended after nailing the byte down
C5_Witness ==
    /\ OneByteStub /\ Returned
    /\ Len(goldendata) = 4 /\ maxleaf = 4 /\ minleafnail = 1 /\ target.byte = 3
    /\ encstatus[1] = 1

\* C6: dig returns true exactly when a flushed candidate has just completed the
\* counters of a direction: the counters of a direction are all >=
\* minfaultspercol only once true is being returned, true stays the result
\* through every pending frame, after it no range is popped, no target is
\* executed and nothing is recorded, and no trial is ever executed with the
\* counters of a direction complete.
C6_TrueIffComplete ==
    /\ [](StopMet <=> retval = "True")
    /\ [][(retval # "True" /\ retval' = "True") =>
            /\ Len(encpairs') + Len(decpairs') = Len(encpairs) + Len(decpairs) + 1
            /\ StopMet']_vars
    /\ [][retval = "True" =>
            /\ retval' = "True"
            /\ UNCHANGED <<recorder, trial, tabletree>>
            /\ Len(stack') <= Len(stack)]_vars
    /\ [][Trial => ~StopMet]_vars

\* true is on its way up through the pending frames of a nailing recursion
C6_Witness ==
    /\ retval = "True" /\ phase = "dig"
    /\ Len(stack) >= 1
    /\ Complete(encstatus)

\* the ranges of a Work Tree in the order in which they are popped
RECURSIVE Reverse(_)
Reverse(s) == IF s = <<>> THEN <<>> ELSE Append(Reverse(Tail(s)), Head(s))

PopOrder(tree) == IF start_from_left THEN tree ELSE Reverse(tree)

\* a trial whose outcome is out
TrialOf(out) == TrialWith(LAMBDA table : {out} \cap doit(table))

BrokenOutcomes ==
    {CrashOutcome, LoopOutcome, Outcome(MajorOBlock, "MajorFault", None)}

\* C7: in breadth-first mode a MajorFault, Loop or Crash on a range r larger
\* than minleaf does not recurse: the children of splitrange(r) are queued on
\* the same Work Tree behind every range already queued, in the address order
\* of the active direction (ascending for pop-left, descending for pop-right),
\* so the Work Tree is longer than it was after popping r.
C7_BreadthFirstRequeues ==
    [][\A out \in BrokenOutcomes :
        (/\ TrialOf(out)
         /\ ~depth_first_traversal
         /\ size(popped(Top.tree)) > minleaf)
        => LET r == popped(Top.tree)
               kids == splitrange(r, 1)
           IN  /\ Len(stack') = Len(stack)
               /\ Top'.pc = "loop"
               /\ Len(Top'.tree) > Len(Top.tree) - 1
               /\ Len(kids) >= 2
               /\ \A i \in 1..(Len(kids) - 1) : kids[i][1] < kids[i + 1][1]
               /\ PopOrder(Top'.tree)
                    = PopOrder(afterpop(Top.tree))
                      \o (IF start_from_left THEN kids ELSE Reverse(kids))]_vars

\* popping from the right, the second (0,2) of a replayed log crashed and its
\* children were queued on the left, behind the first (0,2)
C7_Witness ==
    /\ ~depth_first_traversal /\ ~start_from_left
    /\ phase = "dig" /\ Len(stack) = 1 /\ Top.pc = "loop"
    /\ trial # <<>> /\ trial.r = <<0, 2>>
    /\ Top.tree = << <<0, 1>>, <<1, 2>>, <<0, 2>> >>

\* C8: whatever the initial Work Tree, the fault budget, the traversal order,
\* the pop end and the statuses, dig returns: every frame ends, and the result
\* is false exactly when the top-level Work Tree has been emptied without the
\* counters of a direction ever being complete.
C8_DigReturns ==
    /\ [](Returned => (retval = "False" <=> (tabletree = <<>> /\ ~StopMet)))
    /\ (phase = "dig") ~> Returned

\* a search ended without completing a direction, after recording a pair found
\* in a nailing recursion
C8_Witness ==
    /\ Returned /\ retval = "False"
    /\ phase = "dig"
    /\ Len(encpairs) + Len(decpairs) > 2
    /\ Len(goldendata) = 2 /\ minleafnail = 1 /\ addresses.log

(***************************************************************************)
(* Claims about the signals, checked under SpecSignals.                    *)
(***************************************************************************)
\* the trace files a flush of the present sequences has to leave on disk
Flushed == savetraces = <<>> \/ (dumps # <<>> /\ Last(dumps) = savetraces)

\* C9: when SIGINT arrives during a search, the search is aborted and the Trace
\* Pair sequences accumulated so far are flushed to trace files before the
\* process terminates; with nothing beyond the golden pair the process still
\* exits normally.
C9_InterruptFlushes ==
    phase = "aborted" => (exitcode = 0 /\ Flushed)

\* the pairs read back from a text trace file: two hexadecimal numbers a line
TextPairs(file) ==
    [i \in 1..Len(file.data) |->
        LET l == file.data[i]
            w == 2 * blocksize
        IN  <<readhex(SubSeq(l, 1, w)), readhex(SubSeq(l, w + 2, 2 * w + 1))>>]

TextWellFormed(file) ==
    \A i \in 1..Len(file.data) :
        LET l == file.data[i]
            w == 2 * blocksize
        IN  Len(l) = 2 * w + 2 /\ l[w + 1] = " " /\ l[2 * w + 2] = "\n"

\* the pairs read back from a trs file: after the header, records of two
\* big-endian blocks; the header announces the number of records
TrsBody(file) == SubSeq(file.data, Len(trsheader(0)) + 1, Len(file.data))

TrsPairs(file) ==
    [i \in 1..(Len(TrsBody(file)) \div (2 * blocksize)) |->
        LET from == (i - 1) * 2 * blocksize
        IN  <<number(SubSeq(TrsBody(file), from + 1, from + blocksize), 256),
              number(SubSeq(TrsBody(file), from + blocksize + 1,
                            from + 2 * blocksize), 256)>>]

TrsWellFormed(file) ==
    /\ Len(file.data) = Len(trsheader(0)) + file.n * 2 * blocksize
    /\ number(Reverse(SubSeq(file.data, 3, 6)), 256) = file.n

Pairs(file) == IF file.kind = "trs" THEN TrsPairs(file) ELSE TextPairs(file)

WellFormed(file) ==
    IF file.kind = "trs" THEN TrsWellFormed(file) ELSE TextWellFormed(file)

IsPrefix(s, t) == Len(s) <= Len(t) /\ s = SubSeq(t, 1, Len(s))

\* the files of every dump, with the position of the dump
DumpedFiles ==
    {<<i, j>> \in (1..Len(dumps)) \X (1..2) : j <= Len(dumps[i])}

FileAt(d) == dumps[d[1]][d[2]]

Recorded(mode) == IF mode = "enc" THEN encpairs ELSE decpairs

\* a step that writes trace files while the search goes on
DumpStep == dumps' # dumps /\ phase' \in {"constructed", "dig"}

\* C10: a dump changes none of encpairs, decpairs, encstatus, decstatus, the
\* Work Tree and the fault budget, so the search goes on from the state it was
\* in; every dumped sequence starts with the golden pair, holds the pairs of its
\* direction recorded so far and is a prefix of any later dump of the same
\* direction; and two dumps of a direction with the same number of pairs hold
\* the same pairs in the same order.
C10_DumpIsReadOnly ==
    /\ [][DumpStep => UNCHANGED <<config, recorder, search, phase, exitcode>>]_vars
    /\ [](\A d \in DumpedFiles :
            /\ WellFormed(FileAt(d))
            /\ Len(Pairs(FileAt(d))) = FileAt(d).n
            /\ Pairs(FileAt(d))[1] = <<IBlock, GoldenOBlock>>
            /\ IsPrefix(Pairs(FileAt(d)), Recorded(FileAt(d).mode)))
    /\ [](\A d, e \in DumpedFiles :
            (d[1] < e[1] /\ FileAt(d).mode = FileAt(e).mode)
            => /\ IsPrefix(Pairs(FileAt(d)), Pairs(FileAt(e)))
               /\ FileAt(d).n = FileAt(e).n => FileAt(d).data = FileAt(e).data)

\* SIGUSR1 was sent twice with no new pair in between, the search went on and
\* found another pair, and the final trs file is longer than the two dumps
C10_Witness ==
    /\ phase = "done" /\ savetraces_format = "trs" /\ blocksize = 2
    /\ Len(dumps) = 3
    /\ \A i \in 1..3 : Len(dumps[i]) >= 1 /\ dumps[i][1].mode = "enc"
    /\ dumps[1][1].n = 2 /\ dumps[2][1].n = 2 /\ dumps[3][1].n > 2

\* the name of a trace file: 'dfa_%s_%s-%s_%i.txt' or 'trs_%s_%s-%s_%i.trs' of
\* the direction, the start timestamp, the flush time and the number of pairs
Name(file) == <<file.kind, file.mode, file.init, file.time, file.n>>

\* C11: any two dump operations of a run write to distinct file names for the
\* same direction, so a later dump never overwrites the file of an earlier one.
C11_DumpNamesDistinct ==
    \A d, e \in DumpedFiles :
        d[1] # e[1] => Name(FileAt(d)) # Name(FileAt(e))

(***************************************************************************)
(* Claims about doit, checked under SpecDoit.                              *)
(***************************************************************************)
upper(c) == IF ishexdigit(c) THEN HexDigits[hexvalue(c) + 1] ELSE c

RECURSIVE pow16(_)
pow16(k) == IF k <= 0 THEN 1 ELSE 16 * pow16(k - 1)

\* the blocks an output denotes: those whose hexadecimal print, padded to the
\* width of the output without its surrounding whitespace, is that output,
\* letter case apart
Denoted(output) ==
    LET core == strip(output)
        text == [i \in 1..Len(core) |-> upper(core[i])]
    IN  {v \in 0..(pow16(Len(core)) - 1) : core # <<>> /\ text = hexpad(Len(core), v)}

\* C12: doit turns every failure into a result: a target that cannot be started
\* gives (None, Crash, None), one that exceeds the timeout is killed and gives
\* (None, Loop, None), an output that cannot be decoded gives (None, Crash, None);
\* only otherwise is the checker called, once, on the decoded block, whose status
\* and column are returned with the block.  So the checker is never called
\* without a block and a block of None comes with Crash or Loop only.
C12_DoitFoldsFailures ==
    (ret # <<>>) =>
      LET denoted == Denoted(call.run.output)
      IN
        /\ call.run.kind = "OSError" =>
             ret = [result |-> Outcome(None, "Crash", None), checked |-> <<>>,
                    killed |-> FALSE]
        /\ call.run.kind = "TimeoutExpired" =>
             ret = [result |-> Outcome(None, "Loop", None), checked |-> <<>>,
                    killed |-> TRUE]
        /\ (call.run.kind = "exit" /\ denoted = {}) =>
             ret = [result |-> Outcome(None, "Crash", None), checked |-> <<>>,
                    killed |-> FALSE]
        /\ \A v \in denoted :
             call.run.kind = "exit" =>
               ret = [result |-> Outcome(v, check(v).status, check(v).index),
                      checked |-> <<v>>, killed |-> FALSE]
        /\ ret.result.oblock = None <=> ret.result.status \in {"Crash", "Loop"}
        /\ ret.result.oblock = None <=> ret.checked = <<>>
        /\ ret.result.status \in FaultStatus

\* the target printed something that is no hexadecimal number: a Crash, and the
\* checker was not called
C12_Witness ==
    /\ ret # <<>>
    /\ call.run = Exited(<<"G", "\n">>)
    /\ ret.result = Outcome(None, "Crash", None)
    /\ ret.checked = <<>>

(***************************************************************************)
(* Claims about the construction, checked under SpecConstruct.             *)
(***************************************************************************)
AllOutcomes ==
    {CrashOutcome, LoopOutcome}
    \cup {Outcome(o, check(o).status, check(o).index) : o \in OBlocks}

\* a golden run whose outcome is out
GoldenOf(out) == GoldenRunWith(LAMBDA table : {out} \cap doit(table))

NothingCreated ==
    /\ encpairs = <<>> /\ decpairs = <<>>
    /\ encstatus = <<>> /\ decstatus = <<>>

\* C13: if the golden run yields no output block or a status other than NoFault,
\* construction fails before any corrupted table is written or executed and no
\* sequence or counter is created; a session whose construction succeeded has
\* the golden pair as first element of both sequences and, right after the
\* construction, nothing else in them and all counters at 0.
C13_CalibrationIsFatal ==
    /\ [][\A out \in AllOutcomes :
            GoldenOf(out) =>
              IF out.oblock = None \/ out.status # "NoFault"
              THEN phase' = "failed" /\ NothingCreated'
              ELSE /\ phase' = "constructed"
                   /\ encpairs' = <<GoldenPair>> /\ decpairs' = <<GoldenPair>>
                   /\ encstatus' = <<0, 0, 0, 0>> /\ decstatus' = <<0, 0, 0, 0>>]_vars
    /\ [](phase \in {"init", "failed"} =>
            /\ NothingCreated
            /\ trial = <<>> /\ stack = <<>> /\ dumps = <<>>
            /\ targetdata \in {<<>>, goldendata})
    /\ [][phase = "failed" => UNCHANGED vars]_vars
    /\ [](phase \in {"constructed", "dig", "done"} =>
            /\ encpairs # <<>> /\ encpairs[1] = GoldenPair
            /\ decpairs # <<>> /\ decpairs[1] = GoldenPair
            /\ Len(encstatus) = NCols /\ Len(decstatus) = NCols)

\* the golden run of a target that may answer anything went wrong
C13_Witness ==
    /\ phase = "failed" /\ target.kind = "any"
    /\ NothingCreated /\ targetdata = goldendata /\ trial = <<>>

(***************************************************************************)
(* Claims about the binary serialization, checked under SpecTrs.           *)
(***************************************************************************)
\* the header of a trs file of n records of a block size b, byte by byte
HeaderBytes(n, b) ==
    <<65, 4, n % 256, (n \div 256) % 256, (n \div 65536) % 256, n \div 16777216,
      66, 4, 0, 0, 0, 0,
      67, 1, 1,
      68, 2, (2 * b) % 256, (2 * b) \div 256,
      95, 0>>

\* C14: the trs serialization of a sequence of n > 1 pairs is the 21-byte header
\* 41 04 <n, 32-bit little-endian> 42 04 00 00 00 00 43 01 01 44 02 <2b, 16-bit
\* little-endian> 5F 00 followed by exactly n records of 2b bytes, the i-th
\* being the big-endian bytes of the input block then of the output block of
\* the i-th pair, golden pair first; for b = 16 and n = 5 the header is
\* 41 04 05 00 00 00 42 04 00 00 00 00 43 01 01 44 02 20 00 5F 00.
C14_TrsLayout ==
    \A k \in 1..Len(ret) :
        LET file == ret[k]
            pairs == Recorded(file.mode)
            n == Len(pairs)
            record(i) == SubSeq(file.data, 21 + (i - 1) * 2 * blocksize + 1,
                                21 + i * 2 * blocksize)
        IN  /\ n > 1 /\ file.n = n
            /\ Len(file.data) = 21 + n * 2 * blocksize
            /\ SubSeq(file.data, 1, 21) = HeaderBytes(n, blocksize)
            /\ (blocksize = 16 /\ n = 5) =>
                 SubSeq(file.data, 1, 21)
                   = <<65, 4, 5, 0, 0, 0, 66, 4, 0, 0, 0, 0, 67, 1, 1, 68, 2, 32, 0, 95, 0>>
            /\ \A i \in 1..n :
                 /\ \A j \in 1..(2 * blocksize) : record(i)[j] \in 0..255
                 /\ number(SubSeq(record(i), 1, blocksize), 256) = pairs[i][1]
                 /\ number(SubSeq(record(i), blocksize + 1, 2 * blocksize), 256)
                      = pairs[i][2]
            /\ record(1)[blocksize] = IBlock /\ record(1)[2 * blocksize] = GoldenOBlock

\* five pairs of blocks of 16 bytes were serialized, and one block of the file
\* has more than one significant byte
C14_Witness ==
    /\ ret # <<>> /\ blocksize = 16 /\ Len(encpairs) = 5
    /\ ret[1].mode = "enc" /\ Len(ret[1].data) = 21 + 5 * 32
    /\ encpairs[5][2] = 258
    /\ SubSeq(ret[1].data, Len(ret[1].data) - 2, Len(ret[1].data)) = <<0, 1, 2>>

(***************************************************************************)
(* Claims about the candidates of a leaf, checked under Spec.              *)
(***************************************************************************)
\* the number of trials a fault budget stands for
budget(flts) == IF flts.islist THEN Len(flts.masks) ELSE flts.n

GoodStatus == {"GoodEncFault", "GoodDecFault"}

\* candidates gathered on one range by good trials, with the masks of the list
\* in their order when the budget is a list
BatchOn(cands, r) ==
    \A j \in 1..Len(cands) :
        /\ cands[j][1].r = r
        /\ cands[j][1].status \in GoodStatus
        /\ cands[j][2] = <<IBlock, cands[j][1].oblock>>
        /\ faults.islist => cands[j][1].fault = faults.masks[j]

Batch(cands) == cands = <<>> \/ BatchOn(cands, cands[1][1].r)

FlushBegins == Len(stack') = Len(stack) /\ stack # <<>> /\ Top.pc = "loop" /\ Top'.pc = "flush"

Recording == recorder' # recorder

\* C15: with minleafnail <= minleaf, the candidates of a leaf r reached with a
\* budget of k trials are gathered by successive good trials on r alone, at most
\* k of them; a pair is appended, counted or logged only in a flush, a flush
\* begins only with the k candidates of k good trials on r, and a trial on r with
\* another status ends the trials on r with nothing recorded: the frames that
\* hold candidates of r have no range left to try.
C15_CandidatesTogether ==
    /\ [](minleafnail <= minleaf =>
            \A i \in 1..Len(stack) :
                LET f == stack[i]
                IN  /\ budget(f.faults) >= 1
                    /\ Len(f.candidates) + budget(f.faults) = budget(faults)
                    /\ Batch(f.candidates)
                    /\ f.candidates # <<>> =>
                         /\ size(f.candidates[1][1].r) <= minleafnail
                         /\ f.tree \in {<<>>, <<f.candidates[1][1].r>>}
                         /\ f.pc \in {"called", "flush"} => f.tree = <<>>
                    /\ f.pc = "flush" =>
                         /\ f.mycandidates # <<>>
                         /\ \A j \in 1..Len(f.mycandidates) :
                              /\ f.mycandidates[j][1].r = f.mycandidates[1][1].r
                              /\ f.mycandidates[j][1].status \in GoodStatus
                         /\ Len(f.mycandidates) <= budget(faults)
                         /\ budget(f.faults) = 1)
    /\ [][(minleafnail <= minleaf /\ FlushBegins) =>
            /\ Len(Top'.mycandidates) = budget(faults)
            /\ Batch(Top'.mycandidates)
            /\ Top'.mycandidates[1][1].r = trial'.r]_vars
    /\ [][(minleafnail <= minleaf /\ Recording) =>
            /\ Top.pc = "flush"
            /\ \/ encpairs' = Append(encpairs, Head(Top.mycandidates)[2]) /\ decpairs' = decpairs
               \/ decpairs' = Append(decpairs, Head(Top.mycandidates)[2]) /\ encpairs' = encpairs]_vars
    /\ [][\A out \in {o \in AllOutcomes : o.status \notin GoodStatus} :
            (/\ minleafnail <= minleaf
             /\ stack # <<>> /\ Top.candidates # <<>>
             /\ TrialOf(out))
            => /\ ~Recording
               /\ Len(stack') = Len(stack)
               /\ Top'.pc = "loop" /\ Top'.tree = <<>>]_vars

\* the flush of a leaf begins with the candidates of two good trials, one for
\* each mask of the list
C15_Witness ==
    /\ minleafnail <= minleaf
    /\ phase = "dig" /\ stack # <<>> /\ Top.pc = "flush"
    /\ faults.islist /\ Len(faults.masks) = 2
    /\ Len(Top.mycandidates) = 2
    /\ Top.mycandidates[1][1].fault = 1 /\ Top.mycandidates[2][1].fault = 255
    /\ Len(stack) >= 2

\* C16: when the candidates of a leaf are flushed, each pair is appended to the
\* sequence of the direction reported for that candidate's own trial, and the
\* counter incremented is that of this direction and of the column reported for
\* that candidate's own trial.
C16_FlushByOwnVerdict ==
    [][Recording =>
        LET own == Head(Top.mycandidates)[1]
            pair == Head(Top.mycandidates)[2]
        IN  IF own.status = "GoodEncFault"
            THEN /\ encpairs' = Append(encpairs, pair)
                 /\ encstatus' = [encstatus EXCEPT ![own.column + 1] = @ + 1]
                 /\ decpairs' = decpairs /\ decstatus' = decstatus
            ELSE /\ decpairs' = Append(decpairs, pair)
                 /\ decstatus' = [decstatus EXCEPT ![own.column + 1] = @ + 1]
                 /\ encpairs' = encpairs /\ encstatus' = encstatus]_vars

\* the pairs of a sequence after the golden pair
Confirmed(pairs) == Tail(pairs)

ElementsOf(seq) == {seq[i] : i \in 1..Len(seq)}

\* the lines of the run log that belong to a sequence, as pairs, in their order
RECURSIVE LoggedIn(_, _)
LoggedIn(lines, pairs) ==
    IF lines = <<>> THEN <<>>
    ELSE IF <<Head(lines).iblock, Head(lines).oblock>> \in ElementsOf(pairs)
         THEN << <<Head(lines).iblock, Head(lines).oblock>> >> \o LoggedIn(Tail(lines), pairs)
         ELSE LoggedIn(Tail(lines), pairs)

\* C17: every pair that a flush appends has its log line written: at the end of
\* a search, returning true or false, the run log holds as many candidate lines
\* as the two sequences hold pairs beyond the golden ones, and the lines of the
\* pairs of a sequence are in the order of the sequence.
C17_EveryPairLogged ==
    Returned =>
        /\ Len(logfile) = Len(Confirmed(encpairs)) + Len(Confirmed(decpairs))
        /\ LoggedIn(logfile, Confirmed(encpairs)) = Confirmed(encpairs)
        /\ LoggedIn(logfile, Confirmed(decpairs)) = Confirmed(decpairs)

\* the range q lies inside the range r and is shorter
Within(q, r) == r[1] <= q[1] /\ q[1] <= q[2] /\ q[2] <= r[2] /\ size(q) < size(r)

\* the frame f waits for a recursion on a range r longer than minleafnail: the
\* nailing recursion of lines 305-312 when the trial on r was good
Nailing(f) == f.pc = "called" /\ size(f.r) > minleafnail

\* the frames that wait for a nailing recursion while deeper frames run
NailingFrames(stk) == {i \in 1..(Len(stk) - 1) : Nailing(stk[i])}

\* C18: a good trial on a range r longer than minleafnail records nothing and
\* starts a dig on the halves of r, in both traversal modes; until that dig
\* returns, every trial and every recorded candidate is on a shorter range inside
\* r and the frame of r, pending ranges included, does not change; the frame
\* goes on with its pending ranges only if the dig returned False, and after a
\* True no trial is made.
C18_NailingConfined ==
    /\ [](\A i \in NailingFrames(stack) :
            \A j \in (i + 1)..Len(stack) :
                /\ \A k \in 1..Len(stack[j].tree) : Within(stack[j].tree[k], stack[i].r)
                /\ \A k \in 1..Len(stack[j].candidates) :
                       Within(stack[j].candidates[k][1].r, stack[i].r)
                /\ \A k \in 1..Len(stack[j].mycandidates) :
                       Within(stack[j].mycandidates[k][1].r, stack[i].r))
    /\ [][\A out \in {o \in AllOutcomes : o.status \in GoodStatus} :
            (/\ stack # <<>> /\ Top.pc = "loop" /\ Top.tree # <<>>
             /\ size(popped(Top.tree)) > minleafnail
             /\ TrialOf(out))
            => /\ ~Recording
               /\ Len(stack') = Len(stack) + 1
               /\ Nailing(stack'[Len(stack)])
               /\ stack'[Len(stack)].r = trial'.r
               /\ stack'[Len(stack)].tree = afterpop(Top.tree)
               /\ Top'.tree = splitrange(trial'.r, 1)
               /\ Top'.candidates = <<>>]_vars
    /\ [][\A i \in NailingFrames(stack) :
            /\ Len(stack') > i => stack'[i] = stack[i]
            /\ (trial' # trial \/ targetdata' # targetdata) => Within(trial'.r, stack[i].r)
            /\ Recording => Within(Head(Top.mycandidates)[1].r, stack[i].r)
            /\ Len(stack') = i =>
                 /\ Len(stack) = i + 1
                 /\ IF retval' = "True" THEN stack'[i] = stack[i]
                    ELSE /\ stack'[i].pc = "loop"
                         /\ stack'[i].tree = stack[i].tree]_vars
    /\ [][(retval = "True" /\ stack # <<>>) =>
            (trial' = trial /\ targetdata' = targetdata /\ ~Recording)]_vars

\* breadth-first: a trial on a part of a nailed range while the frame of that
\* range still has ranges pending
C18_Witness ==
    /\ ~depth_first_traversal
    /\ \E i \in NailingFrames(stack) :
         /\ stack[i].tree # <<>>
         /\ Within(trial.r, stack[i].r)
         /\ Top.pc = "loop" /\ Top.tree # <<>>

\* the sum of the counters of a status list
RECURSIVE total(_)
total(colstatus) ==
    IF colstatus = <<>> THEN 0 ELSE Head(colstatus) + total(Tail(colstatus))

\* the statuses of a trial that is neither GoodEncFault nor GoodDecFault
OtherStatus == {o.status : o \in AllOutcomes} \ GoodStatus

\* C19: between two steps of the search both sequences begin with the golden
\* pair, every counter is at least 0 and each sequence holds one pair more than
\* its counters add up to; a step only appends to a sequence and only raises a
\* counter; a trial step changes neither the sequences nor the counters, and
\* they change only in the flush that follows a trial of status GoodEncFault or
\* GoodDecFault, so that a trial whose status is NoFault, MinorFault, MajorFault,
\* Loop or Crash changes nothing.
C19_PairsAndCounters ==
    /\ [](/\ encpairs # <<>> /\ Head(encpairs) = GoldenPair
          /\ decpairs # <<>> /\ Head(decpairs) = GoldenPair
          /\ \A c \in 1..NCols : encstatus[c] >= 0 /\ decstatus[c] >= 0
          /\ Len(encpairs) = 1 + total(encstatus)
          /\ Len(decpairs) = 1 + total(decstatus))
    /\ [][/\ IsPrefix(encpairs, encpairs')
          /\ IsPrefix(decpairs, decpairs')
          /\ \A c \in 1..NCols : encstatus'[c] >= encstatus[c] /\ decstatus'[c] >= decstatus[c]]_vars
    /\ [][Trial =>
            /\ encpairs' = encpairs /\ decpairs' = decpairs
            /\ encstatus' = encstatus /\ decstatus' = decstatus
            /\ stack' # <<>>
            /\ Top'.pc = "flush" => Top'.status \in GoodStatus]_vars
    /\ [][Recording => (Top.pc = "flush" /\ Top.status \in GoodStatus)]_vars

\* pairs of both directions are recorded and a trial with another status has
\* just been made
C19_Witness ==
    /\ Len(encpairs) > 1 /\ Len(decpairs) > 1
    /\ total(encstatus) >= 2
    /\ stack # <<>> /\ Top.pc = "loop"
    /\ trial # <<>>
    /\ \E out \in {o \in AllOutcomes : o.status \in OtherStatus} :
         out \in doit(targetdata)

\* C20: depth-first on a Work Tree built by splitrange, the start address of a
\* trial is never below that of the trial before it when ranges are popped from
\* the left, and its end address is never above that of the trial before it when
\* they are popped from the right; this holds across the recursions of nailing
\* and of major faults and across the repeated trials of a leaf.
C20_DepthFirstInOrder ==
    [][(/\ depth_first_traversal
        /\ ~addresses.log
        /\ trial # <<>>
        /\ trial' # trial)
       => IF start_from_left THEN trial'.r[1] >= trial.r[1]
                             ELSE trial'.r[2] <= trial.r[2]]_vars

\* depth-first from the right: inside a recursion, a leaf that ends below the
\* end of the table is tried again with the second mask
C20_Witness ==
    /\ depth_first_traversal /\ ~start_from_left /\ ~addresses.log
    /\ Len(stack) >= 3
    /\ Top.pc = "loop" /\ Top.candidates # <<>>
    /\ trial # <<>> /\ trial.r[2] < Len(goldendata)
    /\ Top.tree = <<trial.r>>

====
